---- MODULE Spec2Model ----
(***************************************************************************)
(* Model of src/index.js: a WebSocket server that relays audio chunks of   *)
(* each client through an ffmpeg transcoder into one Google Speech         *)
(* streamingRecognize stream and sends the transcripts back.               *)
(*                                                                         *)
(* Every event handler of the source runs to completion on the Node event  *)
(* loop, so each handler is one action.  The order of the calls a handler  *)
(* makes is recorded in `effects`, the handler that ran in `event`.        *)
(***************************************************************************)
EXTENDS Integers, Sequences, FiniteSets, TLC

\* ---------------------------------------------------------------- bounds
NumConns   == 2   \* connections the server accepts
MaxStreams == 2   \* recognize streams opened over the whole run
MaxProcs   == 2   \* ffmpeg commands spawned over the whole run
MaxResults == 2   \* 'data' events emitted over the whole run
MaxErrors  == 2   \* 'error' events emitted by recognize streams over the whole run
MaxCount   == 2   \* saturation of the destroy / kill / delete counters

Conns == 1..NumConns
Null  == 0        \* JavaScript null / undefined for a handle reference

VARIABLES
  readyState,      \* ws.readyState of each connection
  clientId,        \* whether ws.clientId has been assigned
  recognizeStream, \* the closure variable `recognizeStream` of each connection
  clientStreams,   \* the Map clientStreams: connection -> clientData
  streams,         \* every recognize stream opened so far (id = index)
  procs,           \* every ffmpeg command created so far (id = index)
  sent,            \* envelopes passed to ws.send, per connection, in order
  emitted,         \* number of 'data' events emitted so far
  errors,          \* number of recognize 'error' events emitted so far
  event,           \* the handler that ran last
  effects,         \* the calls that handler made, in program order
  crashed          \* an exception escaped a handler: the process is gone

vars == <<readyState, clientId, recognizeStream, clientStreams, streams,
          procs, sent, emitted, errors, event, effects, crashed>>

\* ------------------------------------------------------------ data types
\* Inbound frames, by what JSON.parse and the branch conditions make of them.
\* data: "none" = absent or "", "base64" = a non-empty string,
\*       "number" = a truthy value Buffer.from(_, "base64") rejects.
Messages ==
  { [parses |-> FALSE, isNull |-> FALSE, type |-> "",            data |-> "none"],
    [parses |-> TRUE,  isNull |-> TRUE,  type |-> "",            data |-> "none"],
    [parses |-> TRUE,  isNull |-> FALSE, type |-> "nonsense",    data |-> "none"],
    [parses |-> TRUE,  isNull |-> FALSE, type |-> "end_audio",   data |-> "none"],
    [parses |-> TRUE,  isNull |-> FALSE, type |-> "audio_chunk", data |-> "none"],
    [parses |-> TRUE,  isNull |-> FALSE, type |-> "audio_chunk", data |-> "base64"],
    [parses |-> TRUE,  isNull |-> FALSE, type |-> "audio_chunk", data |-> "number"] }

\* StreamingRecognizeResponse values: results, each with alternatives and isFinal.
DataEvents ==
  { [results |-> << >>],
    [results |-> << [alternatives |-> << >>, isFinal |-> FALSE] >>],
    [results |-> << [alternatives |-> << "hello world", "hollow" >>, isFinal |-> TRUE],
                    [alternatives |-> << "word" >>, isFinal |-> FALSE] >>] }

ErrMessages == { "DEADLINE_EXCEEDED" }

Ev(kind, ws, id, arg) == [kind |-> kind, ws |-> ws, id |-> id, arg |-> arg]

Fx(op, id) == [op |-> op, id |-> id]

Inc(n) == IF n < MaxCount THEN n + 1 ELSE MaxCount

\* The part of the state the handlers read and write, threaded through them.
Cur == [clientStreams   |-> clientStreams,
        recognizeStream |-> recognizeStream,
        streams         |-> streams,
        procs           |-> procs,
        sent            |-> sent,
        effects         |-> << >>]

Do(S, op, id) == [S EXCEPT !.effects = Append(@, Fx(op, id))]

\* ------------------------------------------------------------ Map methods
MapHas(m, ws) == ws \in DOMAIN m

MapSet(m, ws, v) == [k \in (DOMAIN m) \cup {ws} |-> IF k = ws THEN v ELSE m[k]]

MapDelete(m, ws) == [k \in (DOMAIN m) \ {ws} |-> m[k]]

\* ------------------------------------------------------------ collaborators
\* speechClient.streamingRecognize(requestConfig): a new stream object.
streamingRecognize(ws) ==
  [owner |-> ws, destroyed |-> 0, removed |-> 0]

\* stream.destroy()
destroy(S, h) ==
  Do([S EXCEPT !.streams[h].destroyed = Inc(@)], "destroy", h)

\* ffmpegCommand.kill("SIGKILL"): ends the task if it is still running.
kill(S, p) ==
  Do([S EXCEPT !.procs[p].kills = Inc(@), !.procs[p].running = FALSE], "kill", p)

\* ffmpeg(inputStream)....pipe(target, {end: false}): a new running command.
ffmpegPipe(S, ws, target) ==
  Do([S EXCEPT !.procs = Append(@, [owner |-> ws, target |-> target,
                                    running |-> TRUE, kills |-> 0])],
     "spawn", Len(S.procs) + 1)

\* A send that puts the envelope ahead of the ones already written.
wsSend_prepend(S, ws, envelope) ==
  Do([S EXCEPT !.sent[ws] = <<envelope>> \o @], envelope.kind, ws)

\* ws.send(JSON.stringify(envelope))
wsSend(S, ws, envelope) ==
  Do([S EXCEPT !.sent[ws] = Append(@, envelope)], envelope.kind, ws)


\* ------------------------------------------------------------ src/index.js
\* clientStreams.has(ws)
Has(ws) == MapHas(clientStreams, ws)

Live(h) == streams[h].destroyed = 0

Running(p) == procs[p].running

StreamsOf(ws) == { h \in DOMAIN streams : streams[h].owner = ws }

ProcsOf(ws) == { p \in DOMAIN procs : procs[p].owner = ws }

LiveStreamsOf(ws) == { h \in StreamsOf(ws) : Live(h) }

RunningProcsOf(ws) == { p \in ProcsOf(ws) : Running(p) }

\* The operations of the last handler, in program order.
Ops == [i \in DOMAIN effects |-> effects[i].op]

Did(op, id) == \E i \in DOMAIN effects : effects[i] = Fx(op, id)

DidOp(op) == \E i \in DOMAIN effects : effects[i].op = op

\* The same of the handler that runs in the step.
DidNext(op, id) == \E i \in DOMAIN effects' : effects'[i] = Fx(op, id)

\* startRecognitionStream without the clientStreams.set of line 102.
startRecognitionStream_noSet(S, ws) ==
  LET h == Len(S.streams) + 1
  IN  Do([S EXCEPT !.streams = Append(@, streamingRecognize(ws)),
                   !.recognizeStream[ws] = h],
         "open", h)

\* startRecognitionStream (lines 58-103)
startRecognitionStream(S, ws) ==
  LET h  == Len(S.streams) + 1
      S1 == Do([S EXCEPT !.streams = Append(@, streamingRecognize(ws)),
                         !.recognizeStream[ws] = h],
               "open", h)
  IN  Do([S1 EXCEPT !.clientStreams =
                       MapSet(@, ws, [recognizeStream |-> S1.recognizeStream[ws],
                                      ffmpegProcess   |-> Null])],
         "set", ws)

\* clientStreams.delete(ws) (line 117); `removed` counts the removals of the
\* entry that held each stream.
unregister(S, ws) ==
  LET h == S.clientStreams[ws].recognizeStream
      T == IF h # Null THEN [S EXCEPT !.streams[h].removed = Inc(@)] ELSE S
  IN  Do([T EXCEPT !.clientStreams = MapDelete(@, ws)], "delete", ws)

\* stopRecognitionStream that leaves the ffmpeg command running.
stopRecognitionStream_noKill(S, ws) ==
  IF MapHas(S.clientStreams, ws)
  THEN LET clientData == S.clientStreams[ws]
           S1 == IF clientData.recognizeStream # Null
                 THEN destroy(S, clientData.recognizeStream) ELSE S
       IN  unregister(S1, ws)
  ELSE S

\* stopRecognitionStream that forgets clientStreams.delete(ws).
stopRecognitionStream_noDelete(S, ws) ==
  IF MapHas(S.clientStreams, ws)
  THEN LET clientData == S.clientStreams[ws]
           S1 == IF clientData.recognizeStream # Null
                 THEN destroy(S, clientData.recognizeStream) ELSE S
       IN  IF clientData.ffmpegProcess # Null
           THEN kill(S1, clientData.ffmpegProcess) ELSE S1
  ELSE S

\* stopRecognitionStream (lines 106-121)
stopRecognitionStream(S, ws) ==
  IF MapHas(S.clientStreams, ws)
  THEN LET clientData == S.clientStreams[ws]
           S1 == IF clientData.recognizeStream # Null
                 THEN destroy(S, clientData.recognizeStream) ELSE S
           S2 == IF clientData.ffmpegProcess # Null
                 THEN kill(S1, clientData.ffmpegProcess) ELSE S1
       IN  unregister(S2, ws)
  ELSE S

\* JSON.stringify({ error: `Google Speech API Error: ${err.message}` })
ErrorNotice(message) ==
  [kind |-> "error", error |-> <<"Google Speech API Error: ", message>>,
   transcript |-> "", isFinal |-> FALSE, seq |-> 0]

\* JSON.stringify({ transcript, isFinal }); `seq` names the 'data' event the
\* envelope was made from.
Transcript(seq, transcript, isFinal) ==
  [kind |-> "transcript", error |-> << >>,
   transcript |-> transcript, isFinal |-> isFinal, seq |-> seq]

\* The 'error' handler without the readyState test around its send.
onRecognizeError_noGuard(S, ws, h, message) ==
  wsSend(stopRecognitionStream(S, ws), ws, ErrorNotice(message))

\* The 'error' handler that restarts the recognize stream after the cleanup.
onRecognizeError_restart(S, ws, h, message) ==
  LET S1 == startRecognitionStream(stopRecognitionStream(S, ws), ws)
  IN  IF readyState[ws] = "OPEN"
      THEN wsSend(S1, ws, ErrorNotice(message))
      ELSE S1

\* The 'error' handler that notifies the client before it cleans up.
onRecognizeError_noticeFirst(S, ws, h, message) ==
  LET S1 == IF readyState[ws] = "OPEN"
            THEN wsSend(S, ws, ErrorNotice(message))
            ELSE S
  IN  stopRecognitionStream(S1, ws)

\* recognizeStream.on("error") (lines 66-76)
onRecognizeError(S, ws, h, message) ==
  LET S1 == stopRecognitionStream(S, ws)
  IN  IF readyState[ws] = "OPEN"
      THEN wsSend(S1, ws, ErrorNotice(message))
      ELSE S1

\* data.results[0]?.alternatives[0] (line 78)
TopAlternative(data) ==
  /\ Len(data.results) > 0
  /\ Len(data.results[1].alternatives) > 0

\* The 'data' handler that reads the last result and its last alternative.
onRecognizeData_lastResult(S, ws, h, seq, data) ==
  IF TopAlternative(data)
  THEN LET result     == data.results[Len(data.results)]
           transcript == IF Len(result.alternatives) > 0
                         THEN result.alternatives[Len(result.alternatives)]
                         ELSE ""
       IN  IF readyState[ws] = "OPEN"
           THEN wsSend(S, ws, Transcript(seq, transcript, result.isFinal))
           ELSE stopRecognitionStream(S, ws)
  ELSE S

\* The 'data' handler that only skips the send when the socket is not open.
onRecognizeData_noStop(S, ws, h, seq, data) ==
  IF TopAlternative(data) /\ readyState[ws] = "OPEN"
  THEN wsSend(S, ws, Transcript(seq, data.results[1].alternatives[1],
                                data.results[1].isFinal))
  ELSE S

\* recognizeStream.on("data") (lines 77-95)
onRecognizeData(S, ws, h, seq, data) ==
  IF TopAlternative(data)
  THEN LET transcript == data.results[1].alternatives[1]
           isFinal    == data.results[1].isFinal
       IN  IF readyState[ws] = "OPEN"
           THEN wsSend(S, ws, Transcript(seq, transcript, isFinal))
           ELSE stopRecognitionStream(S, ws)
  ELSE S

\* parsedMessage.type on a parsed null (line 142): a TypeError outside any try.
Throws(message) == message.parses /\ message.isNull

\* The audio_chunk branch without the kill of the previous ffmpeg command.
onAudioChunk_noKill(S, ws, message) ==
  LET S1 == IF \/ ~MapHas(S.clientStreams, ws)
               \/ S.clientStreams[ws].recognizeStream = Null
            THEN startRecognitionStream(S, ws) ELSE S
  IN  IF message.data # "base64"
      THEN S1
      ELSE LET S3 == ffmpegPipe(S1, ws, S1.clientStreams[ws].recognizeStream)
           IN  [S3 EXCEPT !.clientStreams[ws].ffmpegProcess = Len(S3.procs)]

\* The audio_chunk branch that starts a recognize stream for every chunk.
onAudioChunk_alwaysStart(S, ws, message) ==
  LET S1 == startRecognitionStream(S, ws)
  IN  IF message.data # "base64"
      THEN S1
      ELSE LET S3 == ffmpegPipe(S1, ws, S1.clientStreams[ws].recognizeStream)
           IN  [S3 EXCEPT !.clientStreams[ws].ffmpegProcess = Len(S3.procs)]

\* The audio_chunk branch (lines 142-269)
onAudioChunk(S, ws, message) ==
  LET S1 == IF \/ ~MapHas(S.clientStreams, ws)
               \/ S.clientStreams[ws].recognizeStream = Null
            THEN startRecognitionStream(S, ws) ELSE S
  IN  IF \/ ~MapHas(S1.clientStreams, ws)
         \/ S1.clientStreams[ws].recognizeStream = Null
      THEN S1
      ELSE LET clientData == S1.clientStreams[ws]
           IN  IF message.data # "base64"
               THEN S1   \* Buffer.from throws, caught at line 267
               ELSE LET S2 == IF clientData.ffmpegProcess # Null
                              THEN kill(S1, clientData.ffmpegProcess) ELSE S1
                        S3 == ffmpegPipe(S2, ws, clientData.recognizeStream)
                    IN  [S3 EXCEPT !.clientStreams[ws].ffmpegProcess = Len(S3.procs)]

\* The handler with line 278 uncommented: end_audio stops the session.
onMessage_endStops(S, ws, message) ==
  IF ~message.parses
  THEN S
  ELSE IF message.type = "audio_chunk" /\ message.data # "none"
       THEN onAudioChunk(S, ws, message)
       ELSE IF message.type = "end_audio"
            THEN stopRecognitionStream(S, ws)
            ELSE S

\* The handler that starts the recognize stream on whatever parses first.
onMessage_eager(S, ws, message) ==
  IF ~message.parses
  THEN S
  ELSE IF message.type = "audio_chunk" /\ message.data # "none"
       THEN onAudioChunk(S, ws, message)
       ELSE IF ~MapHas(S.clientStreams, ws)
            THEN startRecognitionStream(S, ws)
            ELSE S

\* The handler whose audio_chunk test looks at the type only.
onMessage_typeOnly(S, ws, message) ==
  IF ~message.parses
  THEN S
  ELSE IF message.type = "audio_chunk"
       THEN onAudioChunk(S, ws, message)
       ELSE S

\* ws.on("message") (lines 124-285), for a message that does not throw
onMessage(S, ws, message) ==
  IF ~message.parses
  THEN S
  ELSE IF message.type = "audio_chunk" /\ message.data # "none"
       THEN onAudioChunk(S, ws, message)
       ELSE S   \* end_audio and unknown types are only logged

\* ------------------------------------------------------------ actions
\* The uncaught TypeError ends the process: its Map, its streams, its ffmpeg
\* children and its sockets are gone with it.
Exit == [clientStreams   |-> << >>,
         recognizeStream |-> [c \in Conns |-> Null],
         streams         |-> << >>,
         procs           |-> << >>,
         sent            |-> [c \in Conns |-> << >>],
         effects         |-> << >>]

Commit(S, ev) ==
  /\ clientStreams'   = S.clientStreams
  /\ recognizeStream' = S.recognizeStream
  /\ streams'         = S.streams
  /\ procs'           = S.procs
  /\ sent'            = S.sent
  /\ effects'         = S.effects
  /\ event'           = ev

Init ==
  /\ readyState      = [ws \in Conns |-> "NONE"]
  /\ clientId        = [ws \in Conns |-> FALSE]
  /\ recognizeStream = [ws \in Conns |-> Null]
  /\ clientStreams   = << >>
  /\ streams         = << >>
  /\ procs           = << >>
  /\ sent            = [ws \in Conns |-> << >>]
  /\ emitted         = 0
  /\ errors          = 0
  /\ event           = Ev("none", Null, Null, Null)
  /\ effects         = << >>
  /\ crashed         = FALSE

\* wss.on("connection") (lines 52-55)
Connection(ws) ==
  /\ ~crashed
  /\ readyState[ws] = "NONE"
  /\ readyState' = [readyState EXCEPT ![ws] = "OPEN"]
  /\ Commit([Cur EXCEPT !.recognizeStream[ws] = Null], Ev("connection", ws, Null, Null))
  /\ UNCHANGED <<clientId, emitted, errors, crashed>>

\* ws.on("message"): the socket delivers frames only while it is open.
Message(ws, message) ==
  /\ ~crashed
  /\ readyState[ws] = "OPEN"
  /\ IF Throws(message)
     THEN /\ crashed' = TRUE
          /\ Commit(Exit, Ev("message", ws, Null, message))
          /\ clientId' = [c \in Conns |-> FALSE]
          /\ readyState' = [c \in Conns |-> IF readyState[c] = "NONE" THEN "NONE" ELSE "CLOSED"]
          /\ emitted' = 0
          /\ errors' = 0
     ELSE LET S == onMessage(Cur, ws, message)
          IN  /\ Len(S.streams) <= MaxStreams
              /\ Len(S.procs) <= MaxProcs
              /\ Commit(S, Ev("message", ws, Null, message))
              /\ clientId' = [clientId EXCEPT ![ws] = TRUE]
              /\ UNCHANGED <<crashed, readyState, emitted, errors>>

\* The peer's close frame or a dropped socket: readyState leaves OPEN before
\* the 'close' event is emitted (read at lines 71 and 84).
Closing(ws) ==
  /\ ~crashed
  /\ readyState[ws] = "OPEN"
  /\ readyState' = [readyState EXCEPT ![ws] = "CLOSING"]
  /\ event' = Ev("closing", ws, Null, Null)
  /\ effects' = << >>
  /\ UNCHANGED <<clientId, recognizeStream, clientStreams, streams, procs, sent, emitted, errors, crashed>>

\* A 'close' handler that does not clean up.
WsClose_noStop(ws) ==
  /\ ~crashed
  /\ readyState[ws] \in {"OPEN", "CLOSING"}
  /\ readyState' = [readyState EXCEPT ![ws] = "CLOSED"]
  /\ Commit(Cur, Ev("ws_close", ws, Null, Null))
  /\ UNCHANGED <<clientId, emitted, errors, crashed>>

\* ws.on("close") (lines 288-297)
WsClose(ws) ==
  /\ ~crashed
  /\ readyState[ws] \in {"OPEN", "CLOSING"}
  /\ readyState' = [readyState EXCEPT ![ws] = "CLOSED"]
  /\ Commit(stopRecognitionStream(Cur, ws), Ev("ws_close", ws, Null, Null))
  /\ UNCHANGED <<clientId, emitted, errors, crashed>>

\* ws.on("error") (lines 300-303); the socket is closing when it is emitted.
WsError(ws) ==
  /\ ~crashed
  /\ readyState[ws] \in {"OPEN", "CLOSING"}
  /\ readyState' = [readyState EXCEPT ![ws] = "CLOSING"]
  /\ Commit(stopRecognitionStream(Cur, ws), Ev("ws_error", ws, Null, Null))
  /\ UNCHANGED <<clientId, emitted, errors, crashed>>

\* A 'data' event of recognize stream h.  The listeners stay attached after
\* destroy(), so an event already in flight still reaches them.
RecognizeData(h, data) ==
  /\ ~crashed
  /\ emitted < MaxResults
  /\ emitted' = emitted + 1
  /\ Commit(onRecognizeData(Cur, streams[h].owner, h, emitted + 1, data),
            Ev("rec_data", streams[h].owner, h, data))
  /\ UNCHANGED <<readyState, clientId, errors, crashed>>

\* An 'error' event of recognize stream h, live or already destroyed.
RecognizeError(h, message) ==
  /\ ~crashed
  /\ errors < MaxErrors
  /\ errors' = errors + 1
  /\ Commit(onRecognizeError(Cur, streams[h].owner, h, message),
            Ev("rec_error", streams[h].owner, h, message))
  /\ UNCHANGED <<readyState, clientId, emitted, crashed>>

\* recognizeStream.on("end") (lines 96-99): logged only.
RecognizeEnd(h) ==
  /\ ~crashed
  /\ Commit(Cur,
            Ev("rec_end", streams[h].owner, h, Null))
  /\ UNCHANGED <<readyState, clientId, emitted, errors, crashed>>

\* ffmpegCommand.on("start") (line 254): logged only.
FfmpegStart(p) ==
  /\ ~crashed
  /\ Running(p)
  /\ Commit(Cur, Ev("ffmpeg_start", procs[p].owner, p, Null))
  /\ UNCHANGED <<readyState, clientId, emitted, errors, crashed>>

\* ffmpegCommand.on("error") (lines 255-258): logged only.
FfmpegError(p) ==
  /\ ~crashed
  /\ Running(p)
  /\ Commit([Cur EXCEPT !.procs[p].running = FALSE],
            Ev("ffmpeg_error", procs[p].owner, p, Null))
  /\ UNCHANGED <<readyState, clientId, emitted, errors, crashed>>

\* The pipe of line 263 without {end: false}: the command's end closes the
\* recognize stream it writes to.
FfmpegEnd_endsTarget(p) ==
  /\ ~crashed
  /\ Running(p)
  /\ Commit([Cur EXCEPT !.procs[p].running = FALSE,
                        !.streams[procs[p].target].destroyed = Inc(@)],
            Ev("ffmpeg_end", procs[p].owner, p, Null))
  /\ UNCHANGED <<readyState, clientId, emitted, errors, crashed>>

\* ffmpegCommand.on("end") (line 259): logged only.
FfmpegEnd(p) ==
  /\ ~crashed
  /\ Running(p)
  /\ Commit([Cur EXCEPT !.procs[p].running = FALSE],
            Ev("ffmpeg_end", procs[p].owner, p, Null))
  /\ UNCHANGED <<readyState, clientId, emitted, errors, crashed>>

Next ==
  \/ \E ws \in Conns : Connection(ws)
  \/ \E ws \in Conns, message \in Messages : Message(ws, message)
  \/ \E ws \in Conns : Closing(ws)
  \/ \E ws \in Conns : WsClose(ws)
  \/ \E ws \in Conns : WsError(ws)
  \/ \E h \in DOMAIN streams, data \in DataEvents : RecognizeData(h, data)
  \/ \E h \in DOMAIN streams, message \in ErrMessages : RecognizeError(h, message)
  \/ \E h \in DOMAIN streams : RecognizeEnd(h)
  \/ \E p \in DOMAIN procs : FfmpegStart(p)
  \/ \E p \in DOMAIN procs : FfmpegError(p)
  \/ \E p \in DOMAIN procs : FfmpegEnd(p)

Spec == Init /\ [][Next]_vars

TypeOK ==
  /\ \A ws \in Conns : readyState[ws] \in {"NONE", "OPEN", "CLOSING", "CLOSED"}
  /\ DOMAIN clientStreams \subseteq Conns
  /\ Len(streams) <= MaxStreams
  /\ Len(procs) <= MaxProcs

\* ------------------------------------------------------------ claims
IsChunk(ev) ==
  /\ ev.kind = "message"
  /\ ev.arg.parses /\ ~ev.arg.isNull
  /\ ev.arg.type = "audio_chunk" /\ ev.arg.data # "none"

\* C1: at every instant at most one ffmpeg task of a connection is running,
\* and a handler that spawns one has issued the kill of the previous one
\* before the spawn, never after it.
C1_SingleTranscoder ==
  /\ \A ws \in Conns : Cardinality(RunningProcsOf(ws)) <= 1
  /\ \A i, j \in DOMAIN effects :
        (i < j /\ effects[i].op = "spawn") => effects[j].op # "kill"

\* A chunk whose handler killed the previous ffmpeg command of the connection
\* and then spawned the next one.
C1_Witness ==
  /\ IsChunk(event)
  /\ \E p, q \in ProcsOf(event.ws) :
        /\ p # q
        /\ effects = << Fx("kill", p), Fx("spawn", q) >>
        /\ Running(q) /\ ~Running(p)

Registered(h) ==
  \E ws \in DOMAIN clientStreams : clientStreams[ws].recognizeStream = h

Stored(p) ==
  \E ws \in DOMAIN clientStreams : clientStreams[ws].ffmpegProcess = p

\* The handlers that call stopRecognitionStream.
StopTriggers == {"ws_close", "ws_error", "rec_error", "rec_data"}

\* A registered recognize stream and a stored ffmpeg command are untouched;
\* one that is no longer referenced was released exactly once.
C2_Released ==
  /\ \A h \in DOMAIN streams :
        IF Registered(h)
        THEN streams[h].destroyed = 0 /\ streams[h].removed = 0
        ELSE streams[h].destroyed = 1 /\ streams[h].removed = 1
  /\ \A p \in DOMAIN procs :
        IF Stored(p) THEN procs[p].kills = 0 ELSE procs[p].kills = 1

\* A stop trigger of a connection without an entry releases and removes nothing.
C2_SecondStop ==
  \A ws \in Conns :
    (event'.kind \in StopTriggers /\ event'.ws = ws /\ ~Has(ws)) =>
      /\ UNCHANGED <<clientStreams, streams, procs>>
      /\ \A i \in DOMAIN effects' : effects'[i].op \in {"transcript", "error"}

\* C2: however often and from whichever trigger the stop path runs, every
\* recognize stream is destroyed exactly once and its entry removed exactly
\* once when its session is stopped, every ffmpeg command is killed exactly
\* once, and a stop that finds no entry does nothing.
C2_IdempotentStop == []C2_Released /\ [][C2_SecondStop]_vars

\* The 'close' handler ran its stop on a session that an earlier stop had
\* already released: the second call made no call at all.
C2_Witness ==
  /\ event.kind = "ws_close"
  /\ effects = << >>
  /\ \E h \in StreamsOf(event.ws) : streams[h].destroyed = 1 /\ streams[h].removed = 1
  /\ \E p \in ProcsOf(event.ws) : procs[p].kills = 1

\* C3: a connection never has two recognize streams open; the registered one
\* is the open one, and every ffmpeg command stored for the session pipes
\* into it, so a chunk that finds a registered stream reuses it.
C3_SingleRecognizeStream ==
  \A ws \in Conns :
    /\ Cardinality(LiveStreamsOf(ws)) <= 1
    /\ Has(ws) =>
         /\ LiveStreamsOf(ws) = { clientStreams[ws].recognizeStream }
         /\ clientStreams[ws].ffmpegProcess # Null =>
              procs[clientStreams[ws].ffmpegProcess].target = clientStreams[ws].recognizeStream
    /\ (IsChunk(event) /\ event.ws = ws /\ DidOp("open")) =>
         \A h \in StreamsOf(ws) : Live(h) => Did("open", h)

\* A second chunk of a session: no stream was opened, the new ffmpeg command
\* pipes into the stream the first chunk opened.
C3_Witness ==
  /\ IsChunk(event)
  /\ ~DidOp("open") /\ DidOp("spawn")
  /\ Cardinality(StreamsOf(event.ws)) = 1
  /\ Cardinality(ProcsOf(event.ws)) = 2
  /\ \A p \in ProcsOf(event.ws) : procs[p].target = clientStreams[event.ws].recognizeStream

\* The session of ws was torn down: it had a recognize stream and has no entry.
Closed(ws) == ~Has(ws) /\ StreamsOf(ws) # {}

\* The step opens no recognize stream and spawns no ffmpeg command for ws and
\* leaves it without an entry.
NoReopen(ws) ==
  /\ ~Has(ws)'
  /\ StreamsOf(ws)' \subseteq StreamsOf(ws)
  /\ ProcsOf(ws)' \subseteq ProcsOf(ws)

\* C4 as claimed: once a session is Closed, no later event of the connection
\* opens a recognize stream, spawns an ffmpeg command or registers it again.
C4_Original == [][\A ws \in Conns : Closed(ws) => NoReopen(ws)]_vars

\* C4 as amended: once a session is Closed, every later event of the
\* connection other than an audio chunk with data is such a no-op, and so is
\* every event once the channel is no longer open; an audio chunk with data,
\* which only a still open channel delivers, opens a new recognize stream and
\* registers the connection again.
C4_ClosedUntilNextChunk ==
  [][\A ws \in Conns :
       Closed(ws) =>
         /\ readyState[ws] # "OPEN" => NoReopen(ws)
         /\ IF IsChunk(event') /\ event'.ws = ws
            THEN /\ Has(ws)'
                 /\ DidNext("open", clientStreams'[ws].recognizeStream)
                 /\ clientStreams'[ws].recognizeStream \notin StreamsOf(ws)
            ELSE NoReopen(ws)]_vars

\* An event of an already destroyed recognize stream reached the handlers of
\* a Closed session and released nothing.
C4_Witness ==
  /\ event.kind \in {"rec_data", "rec_error"}
  /\ Closed(event.ws)
  /\ streams[event.id].destroyed = 1
  /\ ~DidOp("destroy") /\ ~DidOp("open") /\ ~DidOp("spawn")

\* C5 as claimed: a connection is registered exactly when it is open.
C5_Original == \A ws \in Conns : Has(ws) <=> readyState[ws] = "OPEN"

\* C5 as amended: a connection is registered only while its 'close' event has
\* not been handled, that is while it is open or closing; an open connection
\* need not be registered.
C5_RegisteredOnlyBeforeClose ==
  \A ws \in Conns : Has(ws) => readyState[ws] \in {"OPEN", "CLOSING"}

\* The 'close' handler removed the entry of a registered connection.
C5_Witness ==
  /\ event.kind = "ws_close"
  /\ Did("delete", event.ws)
  /\ readyState[event.ws] = "CLOSED" /\ ~Has(event.ws)

\* C6: once the 'close' or 'error' handler of a connection has run, the
\* connection has no entry, no open recognize stream and no running ffmpeg
\* command, and this stays so after 'close'.
C6_ReleasedAfterClose ==
  \A ws \in Conns :
    (\/ readyState[ws] = "CLOSED"
     \/ (event.kind \in {"ws_close", "ws_error"} /\ event.ws = ws)) =>
      /\ ~Has(ws)
      /\ LiveStreamsOf(ws) = {}
      /\ RunningProcsOf(ws) = {}

\* The 'error' handler of a client channel tore down a session that had a
\* recognize stream and an ffmpeg command.
C6_Witness ==
  /\ event.kind = "ws_error"
  /\ Len(effects) = 3
  /\ Ops = << "destroy", "kill", "delete" >>
  /\ StreamsOf(event.ws) # {} /\ ProcsOf(event.ws) # {}

Transcripts(ws) == { i \in DOMAIN sent[ws] : sent[ws][i].kind = "transcript" }

\* C7: the transcripts a client receives are in the order of the 'data'
\* events they were made from, each event at most once and to one client.
C7_TranscriptOrder ==
  /\ \A ws \in Conns : \A i, j \in Transcripts(ws) :
        i < j => sent[ws][i].seq < sent[ws][j].seq
  /\ \A ws \in Conns : \A i \in Transcripts(ws) : sent[ws][i].seq \in 1..emitted
  /\ \A v, w \in Conns : \A i \in Transcripts(v), j \in Transcripts(w) :
        sent[v][i].seq = sent[w][j].seq => (v = w /\ i = j)

\* A client received the transcripts of two 'data' events.
C7_Witness ==
  \E ws \in Conns : \E i, j \in Transcripts(ws) :
    i < j /\ sent[ws][i].seq = 1 /\ sent[ws][j].seq = 2

\* The recognize stream registered for ws emits 'error' while ws is open.
RecFailure(ws) ==
  /\ event'.kind = "rec_error" /\ event'.ws = ws
  /\ Has(ws) /\ clientStreams[ws].recognizeStream = event'.id
  /\ readyState[ws] = "OPEN"

Index(op) == CHOOSE i \in DOMAIN effects : effects[i].op = op

TornDown(ws) ==
  /\ ~Has(ws)
  /\ LiveStreamsOf(ws) = {}
  /\ RunningProcsOf(ws) = {}

\* C8 as claimed: the ErrorNotice is sent before the teardown begins.
C8_Original ==
  [][\A ws \in Conns :
       RecFailure(ws) =>
         /\ DidOp("error")' /\ DidOp("destroy")' /\ TornDown(ws)'
         /\ Index("error")' < Index("destroy")']_vars

\* C8 as amended: the handler tears the session down first (stream destroyed,
\* ffmpeg command killed, entry removed) and sends the ErrorNotice after it;
\* the session ends Closed.
C8_TeardownThenNotice ==
  [][\A ws \in Conns :
       RecFailure(ws) =>
         /\ TornDown(ws)'
         /\ DidNext("destroy", clientStreams[ws].recognizeStream)
         /\ clientStreams[ws].ffmpegProcess # Null =>
              DidNext("kill", clientStreams[ws].ffmpegProcess)
         /\ DidNext("delete", ws)
         /\ effects'[Len(effects')] = Fx("error", ws)
         /\ \A i \in 1..(Len(effects') - 1) :
              effects'[i].op \in {"destroy", "kill", "delete"}
         /\ sent'[ws] = Append(sent[ws], ErrorNotice(event'.arg))]_vars

\* A failure of the registered recognize stream of an open connection with a
\* stored ffmpeg command: torn down, then notified.
C8_Witness ==
  /\ event.kind = "rec_error"
  /\ readyState[event.ws] = "OPEN"
  /\ Ops = << "destroy", "kill", "delete", "error" >>
  /\ effects[1] = Fx("destroy", event.id)
  /\ Closed(event.ws)

\* The ffmpeg command stored for ws reports 'error' or 'end'.
TranscoderDone(ws) ==
  /\ event'.kind \in {"ffmpeg_error", "ffmpeg_end"} /\ event'.ws = ws
  /\ Has(ws) /\ clientStreams[ws].ffmpegProcess = event'.id

\* C9: when the ffmpeg command of a session fails or finishes, the session's
\* ffmpegProcess reference is cleared, its recognize stream stays open and
\* registered.
C9_TranscoderCleared ==
  [][\A ws \in Conns :
       TranscoderDone(ws) =>
         /\ Has(ws)'
         /\ clientStreams'[ws].recognizeStream = clientStreams[ws].recognizeStream
         /\ Live(clientStreams[ws].recognizeStream)'
         /\ clientStreams'[ws].ffmpegProcess = Null]_vars

\* An inbound message that is not JSON, or is JSON without a known type.
Malformed(message) ==
  \/ ~message.parses
  \/ message.type \notin {"audio_chunk", "end_audio"}

\* C10: a malformed message sends nothing and changes neither the Registry
\* nor any recognize stream or ffmpeg command.
C10_MalformedIgnored ==
  [][(event'.kind = "message" /\ Malformed(event'.arg)) =>
       /\ effects' = << >>
       /\ UNCHANGED <<clientStreams, streams, procs>>]_vars

\* The handler of the step runs for a parsed message of the given type.
IsMessage(ev, type) ==
  /\ ev.kind = "message"
  /\ ev.arg.parses /\ ~ev.arg.isNull
  /\ ev.arg.type = type

\* C11: an end_audio message leaves the Registry entry of its connection, the
\* recognize stream and the ffmpeg command in it, and every stream and command
\* object as they were, and sends no envelope.
C11_EndAudioNoChange ==
  [][IsMessage(event', "end_audio") =>
       /\ effects' = << >>
       /\ UNCHANGED <<clientStreams, recognizeStream, streams, procs, sent>>]_vars

\* An end_audio message handled in a session whose ffmpeg command still runs.
C11_Witness ==
  /\ IsMessage(event, "end_audio")
  /\ Has(event.ws)
  /\ Live(clientStreams[event.ws].recognizeStream)
  /\ clientStreams[event.ws].ffmpegProcess # Null
  /\ Running(clientStreams[event.ws].ffmpegProcess)

\* destroy() is called on recognize stream h in the step.
Closes(h) ==
  /\ h \in DOMAIN streams'
  /\ streams'[h].destroyed > streams[h].destroyed

\* The handlers C12 says keep the recognize stream: the ffmpeg command's
\* events, a chunk processed in a registered session, end_audio, and the
\* stream's own 'end'.
Keeps(ev) ==
  \/ ev.kind \in {"ffmpeg_start", "ffmpeg_error", "ffmpeg_end", "rec_end"}
  \/ IsChunk(ev)
  \/ IsMessage(ev, "end_audio")

\* C12: a recognize stream is closed only by stopRecognitionStream, which
\* also removes its entry; the ffmpeg command's end or error, its replacement
\* by the next chunk's command, end_audio and the stream's 'end' event leave
\* the registered stream open and registered, and the next chunk's command is
\* piped into that same stream.
C12_ClosedOnlyByStop ==
  [][/\ \A h \in DOMAIN streams :
          Closes(h) =>
            /\ event'.kind \in StopTriggers
            /\ event'.ws = streams[h].owner
            /\ DidNext("destroy", h)
            /\ DidNext("delete", streams[h].owner)
     /\ \A ws \in Conns :
          (Keeps(event') /\ event'.ws = ws /\ Has(ws)) =>
            /\ Has(ws)'
            /\ clientStreams'[ws].recognizeStream = clientStreams[ws].recognizeStream
            /\ streams'[clientStreams[ws].recognizeStream]
                 = streams[clientStreams[ws].recognizeStream]
            /\ \A p \in ProcsOf(ws)' \ ProcsOf(ws) :
                 procs'[p].target = clientStreams[ws].recognizeStream]_vars

\* A second chunk of a session: the first ffmpeg command got its kill and the
\* new one writes to the stream the first one wrote to, which is still open.

C12_Witness ==
  /\ IsChunk(event)
  /\ Has(event.ws)
  /\ \E p, q \in ProcsOf(event.ws) :
        /\ p < q
        /\ procs[p].kills = 1
        /\ Running(q)
        /\ procs[p].target = procs[q].target
        /\ clientStreams[event.ws].recognizeStream = procs[q].target
        /\ Live(procs[q].target)

\* The registered recognize stream of ws emits 'data' while the socket of ws
\* is not open.
ClosedChannelResult(ws) ==
  /\ event'.kind = "rec_data" /\ event'.ws = ws
  /\ Has(ws) /\ clientStreams[ws].recognizeStream = event'.id
  /\ readyState[ws] # "OPEN"

\* C13 as claimed: every result event of a session whose socket is not open
\* sends nothing and tears the session down.
C13_Original ==
  [][\A ws \in Conns :
       ClosedChannelResult(ws) =>
         /\ sent' = sent
         /\ TornDown(ws)']_vars

\* C13: a result event with a top alternative that arrives for a session whose
\* socket is not open sends nothing, destroys the session's recognize stream,
\* kills its ffmpeg command and deletes its entry; a result event without a
\* top alternative does nothing.
C13_ClosedChannelTeardown ==
  [][\A ws \in Conns :
       ClosedChannelResult(ws) =>
         IF TopAlternative(event'.arg)
         THEN /\ sent' = sent
              /\ TornDown(ws)'
              /\ DidNext("destroy", clientStreams[ws].recognizeStream)
              /\ clientStreams[ws].ffmpegProcess # Null =>
                   DidNext("kill", clientStreams[ws].ffmpegProcess)
              /\ DidNext("delete", ws)
         ELSE /\ effects' = << >>
              /\ UNCHANGED <<clientStreams, streams, procs, sent>>]_vars

\* A result with a top alternative arrived while the socket was closing and
\* the session, ffmpeg command included, was torn down.
C13_Witness ==
  /\ event.kind = "rec_data"
  /\ TopAlternative(event.arg)
  /\ readyState[event.ws] = "CLOSING"
  /\ Ops = << "destroy", "kill", "delete" >>
  /\ effects[1] = Fx("destroy", event.id)
  /\ TornDown(event.ws)

\* The 'message' handler of ws runs while ws has no entry in clientStreams.
MessageWithoutSession(ws) ==
  /\ event'.kind = "message" /\ event'.ws = ws
  /\ ~Has(ws)

\* C14 as claimed: the first message of any kind on a connection registers a
\* session for it.
C14_Original ==
  [][\A ws \in Conns :
       (MessageWithoutSession(ws) /\ ~clientId[ws]) => Has(ws)']_vars

\* C14: a message handled on a connection without a session, its first
\* message included, registers a session exactly when it is an audio_chunk
\* with data: then a new recognize stream is opened and set as the entry of
\* the connection; after any other message the connection still has no entry.
C14_SessionOnFirstChunk ==
  [][\A ws \in Conns :
       MessageWithoutSession(ws) =>
         IF IsChunk(event')
         THEN /\ Has(ws)'
              /\ clientStreams'[ws].recognizeStream \in StreamsOf(ws)' \ StreamsOf(ws)
              /\ streams'[clientStreams'[ws].recognizeStream].destroyed = 0

              /\ DidNext("open", clientStreams'[ws].recognizeStream)
              /\ DidNext("set", ws)
         ELSE /\ ~Has(ws)'
              /\ StreamsOf(ws)' \subseteq StreamsOf(ws)]_vars

\* The first session of a connection was registered by an audio_chunk.
C14_Witness ==
  /\ IsChunk(event)
  /\ Did("set", event.ws)
  /\ Has(event.ws)
  /\ StreamsOf(event.ws) = {clientStreams[event.ws].recognizeStream}
  /\ sent[event.ws] = << >>

\* A recognize stream of ws emits a result with a top alternative while the
\* socket of ws is open.
OpenChannelResult(ws) ==
  /\ event'.kind = "rec_data" /\ event'.ws = ws
  /\ TopAlternative(event'.arg)
  /\ readyState[ws] = "OPEN"

\* C15: a result event with a top alternative that arrives while the socket
\* is open adds exactly one envelope to what its client was sent, a transcript
\* whose text and isFinal are those of the first alternative of the first
\* result; the handler does nothing else and nobody else is sent anything.
C15_TranscriptOfTopAlternative ==
  [][\A ws \in Conns :
       OpenChannelResult(ws) =>
         /\ Len(sent'[ws]) = Len(sent[ws]) + 1
         /\ SubSeq(sent'[ws], 1, Len(sent[ws])) = sent[ws]
         /\ LET envelope == sent'[ws][Len(sent'[ws])]
            IN  /\ envelope.kind = "transcript"
                /\ envelope.transcript = event'.arg.results[1].alternatives[1]
                /\ envelope.isFinal = event'.arg.results[1].isFinal
         /\ \A other \in Conns \ {ws} : sent'[other] = sent[other]
         /\ effects' = << Fx("transcript", ws) >>]_vars

\* The two-result event was relayed: its client's last envelope is the final
\* transcript "hello world".
C15_Witness ==
  /\ event.kind = "rec_data"
  /\ Len(event.arg.results) = 2
  /\ readyState[event.ws] = "OPEN"
  /\ effects = << Fx("transcript", event.ws) >>
  /\ sent[event.ws] # << >>
  /\ LET envelope == sent[event.ws][Len(sent[event.ws])]
     IN  /\ envelope.kind = "transcript"
         /\ envelope.transcript = "hello world"
         /\ envelope.isFinal

\* The step leaves the entry, the recognize streams and the ffmpeg commands
\* of every connection other than the one whose handler runs as they were.
OthersUntouched ==
  \A ws \in Conns \ {event'.ws} :
    /\ Has(ws)' = Has(ws)
    /\ Has(ws) => clientStreams'[ws] = clientStreams[ws]
    /\ \A h \in StreamsOf(ws) : h \in DOMAIN streams' /\ streams'[h] = streams[h]
    /\ \A p \in ProcsOf(ws) : p \in DOMAIN procs' /\ procs'[p] = procs[p]
    /\ StreamsOf(ws)' = StreamsOf(ws)
    /\ ProcsOf(ws)' = ProcsOf(ws)

\* Every envelope the step sends is sent by a handler of a recognize stream,
\* to the connection that stream was opened for.
SentToOwner ==
  \A i \in DOMAIN effects' :
    effects'[i].op \in {"transcript", "error"} =>
      /\ event'.kind \in {"rec_data", "rec_error"}
      /\ effects'[i].id = streams[event'.id].owner

\* C16: no event of one connection changes the Registry entry, a recognize
\* stream or an ffmpeg command of another connection, and a transcript or
\* error notice made by a recognize stream goes only to the connection the
\* stream was opened for.
C16_Isolation == [][OthersUntouched /\ SentToOwner]_vars

\* C17: a step that sends an envelope to a connection, transcript or error
\* notice, finds the socket of that connection open and leaves it open; what
\* a connection was sent grows only in such a step.
C17_SendOnlyWhenOpen ==
  [][\A ws \in Conns :
       (\/ DidNext("transcript", ws)
        \/ DidNext("error", ws)
        \/ Len(sent'[ws]) > Len(sent[ws]))
       => (/\ readyState[ws] = "OPEN"
           /\ readyState'[ws] = "OPEN")]_vars


\* A recognition error reached a registered session while its socket was
\* closing: the session was torn down and no notice was sent.
C17_Witness ==
  /\ event.kind = "rec_error"
  /\ readyState[event.ws] = "CLOSING"
  /\ Did("destroy", event.id)
  /\ Did("delete", event.ws)
  /\ ~DidOp("error")
  /\ \E i \in DOMAIN sent[event.ws] : sent[event.ws][i].kind = "transcript"

\* C18: every recognize stream that was opened and not destroyed is the
\* recognizeStream of the clientStreams entry of its connection, and every
\* ffmpeg command still running is the ffmpegProcess of that entry; a
\* connection without an entry has no open stream and no running command.
C18_LiveIsRegistered ==
  /\ \A h \in DOMAIN streams :
        Live(h) => /\ Has(streams[h].owner)
                   /\ clientStreams[streams[h].owner].recognizeStream = h
  /\ \A p \in DOMAIN procs :
        Running(p) => /\ Has(procs[p].owner)
                      /\ clientStreams[procs[p].owner].ffmpegProcess = p
  /\ \A ws \in Conns :
        ~Has(ws) => LiveStreamsOf(ws) = {} /\ RunningProcsOf(ws) = {}

\* A connection in its second session, with the open stream and the running
\* command registered and the first session's stream and command released.
C18_Witness ==
  \E ws \in Conns :
    /\ Has(ws)
    /\ Live(clientStreams[ws].recognizeStream)
    /\ clientStreams[ws].ffmpegProcess # Null
    /\ Running(clientStreams[ws].ffmpegProcess)
    /\ \E h \in StreamsOf(ws) : ~Live(h)
    /\ \E p \in ProcsOf(ws) : ~Running(p) /\ procs[p].kills > 0

\* A recognize stream of ws that was already destroyed emits 'error' or
\* 'data' while ws has an entry again.
StaleEvent(ws) ==
  /\ event'.kind \in {"rec_error", "rec_data"} /\ event'.ws = ws
  /\ streams[event'.id].destroyed > 0
  /\ Has(ws)

\* C19: an 'error' or 'data' event of an already destroyed recognize stream
\* leaves the connection's current entry in place, its recognize stream open
\* and its ffmpeg command alone.
C19_StaleEventHarmless ==
  [][\A ws \in Conns :
       StaleEvent(ws) =>
         /\ Has(ws)'
         /\ clientStreams'[ws] = clientStreams[ws]
         /\ streams'[clientStreams[ws].recognizeStream].destroyed = 0
         /\ procs' = procs
         /\ ~DidNext("delete", ws)]_vars

\* An audio_chunk message whose data is absent or empty.
EmptyChunk(ev) ==
  /\ IsMessage(ev, "audio_chunk")
  /\ ev.arg.data = "none"

\* C20: an audio_chunk message without data makes no call at all: it opens no
\* recognize stream, spawns and kills no ffmpeg command, sends nothing and
\* leaves clientStreams as it was, with or without a session on the connection
\* and also as the connection's first message.
C20_EmptyChunkIgnored ==
  [][EmptyChunk(event') =>
       /\ effects' = << >>
       /\ UNCHANGED <<clientStreams, recognizeStream, streams, procs, sent>>]_vars


\* An audio_chunk without data was handled on a connection that never had a
\* session, and it still has none.
C20_Witness ==
  /\ EmptyChunk(event)
  /\ readyState[event.ws] = "OPEN"
  /\ ~Has(event.ws)
  /\ StreamsOf(event.ws) = {}
  /\ ProcsOf(event.ws) = {}

====
